---- MODULE Spec2Model ----
(***************************************************************************)
(* Procedural placement, family construction and per-frame LOD of the      *)
(* nature scene (Scene / LayoutMap / Procedural* family modules).          *)
(*                                                                         *)
(* Numbers.  The generator works on 32-bit words; a word is modelled as    *)
(* the pair <<hi, lo>> of its 16-bit halves.  A value returned by the      *)
(* generator is k / 2^32 for a word k, and it is kept as the word k.       *)
(* A sampled coordinate is x = (k/2^32 - 0.5) * SPREAD, which a double     *)
(* holds exactly, so a position is kept as its pair of words and every     *)
(* comparison the code makes on it is computed exactly over integers.      *)
(***************************************************************************)
EXTENDS Integers, Sequences, FiniteSets, TLC

(* ------------------------------------------------------------------ *)
(* 32-bit word arithmetic (JavaScript |0 / >>>0 semantics)             *)
(* ------------------------------------------------------------------ *)
TwoTo16 == 65536

RECURSIVE XorBits(_, _, _)
XorBits(a, b, n) ==
  IF n = 0 THEN 0
  ELSE ((a + b) % 2) + 2 * XorBits(a \div 2, b \div 2, n - 1)

RECURSIVE OrBits(_, _, _)
OrBits(a, b, n) ==
  IF n = 0 THEN 0
  ELSE (IF (a % 2) + (b % 2) > 0 THEN 1 ELSE 0) + 2 * OrBits(a \div 2, b \div 2, n - 1)

XorNibble == [a \in 0..15 |-> [b \in 0..15 |-> XorBits(a, b, 4)]]

Xor16(a, b) ==
  4096 * XorNibble[a \div 4096][b \div 4096]
  + 256 * XorNibble[(a \div 256) % 16][(b \div 256) % 16]
  + 16 * XorNibble[(a \div 16) % 16][(b \div 16) % 16]
  + XorNibble[a % 16][b % 16]

Xor32(x, y) == <<Xor16(x[1], y[1]), Xor16(x[2], y[2])>>

\* x | c for a constant c < 256
OrSmall(x, c) == <<x[1], (x[2] \div 256) * 256 + OrBits(x[2] % 256, c, 8)>>

Add32(x, y) ==
  LET lo == x[2] + y[2]
      hi == x[1] + y[1] + (lo \div TwoTo16)
  IN  <<hi % TwoTo16, lo % TwoTo16>>

Pow2(n) == CASE n = 0 -> 1 [] n = 1 -> 2 [] n = 2 -> 4 [] n = 7 -> 128
             [] n = 9 -> 512 [] n = 14 -> 16384 [] n = 15 -> 32768

\* x >>> n for 0 < n < 16
Shr32(x, n) ==
  <<x[1] \div Pow2(n),
    (x[1] % Pow2(n)) * Pow2(16 - n) + (x[2] \div Pow2(n))>>

Bytes(x) == <<x[2] % 256, x[2] \div 256, x[1] % 256, x[1] \div 256>>

\* Math.imul: the low 32 bits of the product
Imul(x, y) ==
  LET a  == Bytes(x)
      b  == Bytes(y)
      c0 == a[1] * b[1]
      c1 == a[1] * b[2] + a[2] * b[1] + (c0 \div 256)
      c2 == a[1] * b[3] + a[2] * b[2] + a[3] * b[1] + (c1 \div 256)
      c3 == a[1] * b[4] + a[2] * b[3] + a[3] * b[2] + a[4] * b[1] + (c2 \div 256)
  IN  <<(c3 % 256) * 256 + (c2 % 256), (c1 % 256) * 256 + (c0 % 256)>>

WordOf(hi, lo) == <<hi, lo>>

\* 0x6D2B79F5
MulberryIncrement == WordOf(27947, 31221)

(* ------------------------------------------------------------------ *)
(* mulberry32: the seeded generator.  The closure's variable a is the  *)
(* generator's whole state; only a mod 2^32 is ever observed.          *)
(* ------------------------------------------------------------------ *)
mulberry32State(a) == Add32(a, MulberryIncrement)

mulberry32Value(a) ==
  LET t0 == Add32(a, MulberryIncrement)
      t1 == Imul(Xor32(t0, Shr32(t0, 15)), OrSmall(t0, 1))
      t2 == Xor32(t1, Add32(t1, Imul(Xor32(t1, Shr32(t1, 7)), OrSmall(t1, 61))))
  IN  Xor32(t2, Shr32(t2, 14))

(* ------------------------------------------------------------------ *)
(* LayoutMap: the rasterised zone map                                  *)
(* ------------------------------------------------------------------ *)
Zones == <<"EMPTY", "PATH", "FLOWER", "GRASS", "BUSH", "TREE">>

ZoneNames == {Zones[i] : i \in 1..Len(Zones)}

ZONE_COLORS ==
  [z \in ZoneNames |->
     CASE z = "EMPTY"  -> <<0, 0, 0>>
       [] z = "PATH"   -> <<255, 255, 255>>
       [] z = "FLOWER" -> <<255, 0, 0>>
       [] z = "GRASS"  -> <<0, 255, 0>>
       [] z = "BUSH"   -> <<0, 0, 255>>
       [] z = "TREE"   -> <<128, 0, 128>>]

MAP_RES == 128

\* A pixel the edge of a disk crosses holds a mixture of the disk's colour and
\* the colour below it (the canvas anti-aliases the fill); a mixture of two
\* different zone colours is no zone colour.
Mixed == <<-1, -1, -1>>

\* The drawZone calls in paint order: <<x, y, radius>> in hundredths, and the zone.
ZoneDisks ==
  << <<20, 25, 5, "TREE">>,  <<80, 30, 5, "TREE">>,  <<75, 80, 5, "TREE">>,
     <<25, 75, 5, "TREE">>,  <<50, 85, 5, "TREE">>,  <<50, 15, 5, "TREE">>,
     <<35, 45, 4, "BUSH">>,  <<70, 20, 4, "BUSH">>,  <<15, 60, 4, "BUSH">>,
     <<80, 60, 4, "BUSH">>,  <<60, 90, 4, "BUSH">>,
     <<35, 65, 4, "FLOWER">>, <<60, 45, 4, "FLOWER">>, <<18, 10, 4, "FLOWER">>,
     <<90, 50, 4, "FLOWER">>, <<30, 90, 4, "FLOWER">>,
     <<50, 50, 4, "EMPTY">>, <<55, 52, 3, "EMPTY">> >>

Max2(a, b) == IF a > b THEN a ELSE b

Abs(a) == IF a < 0 THEN 0 - a ELSE a

\* How much of pixel (px, py) the disk d covers: "all", "none" or "part".
\* Lengths are in hundredths of a pixel: the centre is (x * width, y * height)
\* and the radius is radius * width.
Coverage(d, px, py) ==
  LET cx   == d[1] * MAP_RES
      cy   == d[2] * MAP_RES
      r    == d[3] * MAP_RES
      nx   == Max2(0, Max2(100 * px - cx, cx - 100 * (px + 1)))
      ny   == Max2(0, Max2(100 * py - cy, cy - 100 * (py + 1)))
      fx   == Max2(Abs(100 * px - cx), Abs(100 * (px + 1) - cx))
      fy   == Max2(Abs(100 * py - cy), Abs(100 * (py + 1) - cy))
  IN  IF nx >= r \/ ny >= r THEN "none"
      ELSE IF nx * nx + ny * ny >= r * r THEN "none"
      ELSE IF fx * fx + fy * fy <= r * r THEN "all"
      ELSE "part"

\* A fill that paints under what is already there
drawZoneUnder(below, d, px, py) == below

\* ctx.arc + ctx.fill of one disk over a pixel whose colour is below
drawZone(below, d, px, py) ==
  LET c == Coverage(d, px, py)
      colour == ZONE_COLORS[d[4]]
  IN  IF c = "none" THEN below
      ELSE IF c = "all" \/ below = colour THEN colour
      ELSE Mixed

RECURSIVE PaintDisks(_, _, _, _, _)
PaintDisks(disks, n, below, px, py) ==
  IF n > Len(disks) THEN below
  ELSE PaintDisks(disks, n + 1, drawZone(below, disks[n], px, py), px, py)

\* The paint order of createLayoutMap
PaintOrder == ZoneDisks

\* createLayoutMap: the image data, one colour per pixel, row-major
createLayoutMap ==
  [idx \in 0..(MAP_RES * MAP_RES - 1) |->
     PaintDisks(PaintOrder, 1, ZONE_COLORS["GRASS"], idx % MAP_RES, idx \div MAP_RES)]

layoutMap == createLayoutMap

(* ------------------------------------------------------------------ *)
(* Coordinates.  A coordinate is kept as u = x / SPREAD + 0.5 in units *)
(* of 2^-32: the pair <<hi, lo>> with lo in 0..65535 and hi any        *)
(* integer (a sampled coordinate has hi in 0..65535).                  *)
(* ------------------------------------------------------------------ *)
RECURSIVE ZoneOfColour(_, _)
ZoneOfColour(rgb, i) ==
  IF i > Len(Zones) THEN "null"
  ELSE IF rgb = ZONE_COLORS[Zones[i]] THEN Zones[i]
  ELSE ZoneOfColour(rgb, i + 1)

\* The coordinate NaN
NaN == <<>>

\* The lookup without its bounds test
getLayoutZoneUnchecked(x, z) ==
  IF x = NaN \/ z = NaN THEN "null"
  ELSE LET idx == (z[1] \div 512) * MAP_RES + (x[1] \div 512)
       IN  IF idx < 0 \/ idx >= MAP_RES * MAP_RES THEN "null"
           ELSE ZoneOfColour(layoutMap[idx], 1)

getLayoutZone(x, z) ==
  IF x = NaN \/ z = NaN THEN "null"
  ELSE
  IF \/ x[1] < 0 \/ x[1] > TwoTo16 \/ (x[1] = TwoTo16 /\ x[2] > 0)
     \/ z[1] < 0 \/ z[1] > TwoTo16 \/ (z[1] = TwoTo16 /\ z[2] > 0)
  THEN "null"
  ELSE LET mapX == x[1] \div 512
           mapY == z[1] \div 512
           idx  == mapY * MAP_RES + mapX
       IN  IF idx >= MAP_RES * MAP_RES THEN "null"
           ELSE ZoneOfColour(layoutMap[idx], 1)

(* ------------------------------------------------------------------ *)
(* Exact distance test of placeObjects.                                *)
(* dx = (kx - px) * SPREAD / 2^32, and minDistance = m / 2, so         *)
(*   dx*dx + dz*dz < minDistance*minDistance                           *)
(* is 25 * (a*a + b*b) < m*m * 2^58 for the word differences a and b.  *)
(* Numbers beyond 2^31 are sequences of base-4096 digits, low first.   *)
(* ------------------------------------------------------------------ *)
SPREAD == 20

Base == 4096

NumDigits == 8

\* |x - y| of two sampled coordinates, as <<hi, lo>>
AbsDiff(x, y) ==
  LET dh  == x[1] - y[1]
      dl  == x[2] - y[2]
      neg == dh < 0 \/ (dh = 0 /\ dl < 0)
      h   == IF neg THEN 0 - dh ELSE dh
      l   == IF neg THEN 0 - dl ELSE dl
  IN  IF l < 0 THEN <<h - 1, l + TwoTo16>> ELSE <<h, l>>

\* The columns of w * w for a word w = a2 * 4096^2 + a1 * 4096 + a0
SquareColumns(w) ==
  LET a0 == w[2] % Base
      a1 == (w[2] \div Base) + (w[1] % 256) * 16
      a2 == w[1] \div 256
  IN  <<a0 * a0, 2 * a0 * a1, 2 * a0 * a2 + a1 * a1, 2 * a1 * a2, a2 * a2>>

RECURSIVE Normalise(_, _, _)
Normalise(cols, i, carry) ==
  IF i > NumDigits THEN <<>>
  ELSE LET v == (IF i <= Len(cols) THEN cols[i] ELSE 0) + carry
       IN  <<v % Base>> \o Normalise(cols, i + 1, v \div Base)

RECURSIVE DigitsLess(_, _, _)
DigitsLess(A, B, i) ==
  IF i = 0 THEN FALSE
  ELSE IF A[i] # B[i] THEN A[i] < B[i]
  ELSE DigitsLess(A, B, i - 1)

\* 25 * (a*a + b*b) in digits
ScaledSquaredDistance(p, q) ==
  LET sx  == SquareColumns(AbsDiff(p.x, q.x))
      sz  == SquareColumns(AbsDiff(p.z, q.z))
      sum == Normalise([i \in 1..5 |-> sx[i] + sz[i]], 1, 0)
  IN  Normalise([i \in 1..NumDigits |-> ((SPREAD * SPREAD) \div 16) * sum[i]], 1, 0)

\* m*m * 2^58 in digits, for minDistance = m / 2
ScaledSquaredMinDistance(m) == Normalise(<<0, 0, 0, 0, m * m * 1024>>, 1, 0)

\* dx * dx + dz * dz < minDistance * minDistance
TooClose(p, q, m) ==
  DigitsLess(ScaledSquaredDistance(p, q), ScaledSquaredMinDistance(m), NumDigits)

(* ------------------------------------------------------------------ *)
(* State                                                               *)
(* ------------------------------------------------------------------ *)
VARIABLES
  seed,        \* the seed handed to mulberry32 by the layout memo
  requests,    \* the placeObjects calls of one layout computation, in call order
  run,         \* which computation of the layout memo is under way (1, 2, ...)
  call,        \* index in requests of the placeObjects call under way
  rngA,        \* the variable a of the layout's mulberry32 closure
  positions,   \* placeObjects: the local array positions
  attempts,    \* placeObjects: the local counter attempts
  outcome,     \* what the last loop iteration did with its candidate
  pc,          \* where the layout computation stands
  results      \* results[r][c]: what call c of computation r returned

placeVars == <<seed, requests, run, call, rngA, positions, attempts, outcome, pc, results>>

VARIABLES
  fullCount,   \* fullCount[b]: the instance count batch b was built with
  mesh,        \* mesh[b]: the visible flag and the count of batch b's instanced mesh
  camDist,     \* distance from the camera to the batch centres at the last update
  inFrustum,   \* the batches whose bounding volume the frustum of the last update meets
  steps,       \* steps[b]: what the last update did for batch b, in the order it did it
  uniforms,    \* uniforms[b]: uCameraPosition in the shared uniforms of b's family
  themeTarget  \* themeTargetRef.current

lodVars == <<fullCount, mesh, camDist, inFrustum, steps, uniforms, themeTarget>>

VARIABLES
  faulty,          \* the families whose construction throws in this environment
  groundGuarded,   \* whether the createGround in use wraps its body in try/catch
  bushesGuarded,   \* whether the createBushes in use has a catch clause
  effects,         \* performanceSettings.effects
  effectPending,   \* the firefly effect of Scene is scheduled and has not run
  buildPc,         \* "unmounted", "init" (initScene is running), "mounted", "aborted"
  nextFamily,      \* index in Creators of the family initScene builds next
  buildNo,         \* how many times the scene has been mounted
  mathRandom,      \* the function installed as Math.random
  handles,         \* handles[f]: "none", "live" (the built closures) or "noop"
  arrays,          \* arrays[f]: the per-instance values family f's batch was built from
  prevArrays,      \* the arrays of the previous world build
  cleanupFaulty,   \* the families whose cleanup throws in this environment
  emptyFamily,     \* the family whose placement result is empty, or "none"
  layoutReady,     \* the layout memo of Scene has been evaluated for this mount
  owned,           \* owned[f]: what family f allocated and has not released
  cleanupRuns,     \* cleanupRuns[f]: how often the cleanup of f's latest handles ran
  firstPass,       \* what the first per-frame pass of this build found, or NoPass
  console,         \* the families whose constructor logged an error
  frameRequested,  \* a requestAnimationFrame callback of animate is pending
  updatables,      \* updatablesRef.current: 0 for [], n for [envUpdate] of build n
  updatedAfterCleanup  \* the families whose update was called after their cleanup

buildVars == <<faulty, groundGuarded, bushesGuarded, effects, effectPending, buildPc,
               nextFamily, buildNo, mathRandom, handles, arrays, prevArrays,
               cleanupFaulty, emptyFamily, layoutReady, owned, cleanupRuns, firstPass,
               console, frameRequested, updatables, updatedAfterCleanup>>

VARIABLES
  lookX,       \* the x coordinate of a zone lookup
  lookZ,       \* the z coordinate of a zone lookup
  lookResult,  \* what the lookup returned, or Pending
  gens,        \* gens[g]: the variable a of the closure of generator g
  outs         \* outs[g]: the values generator g has returned, in call order

pureVars == <<lookX, lookZ, lookResult, gens, outs>>

VARIABLES
  performanceSettings,  \* the performanceSettings prop of Scene
  perfSettingsRef,      \* perfSettingsRef.current
  waterBuild,           \* how many times createWater has run
  uReflectionEnabled,   \* the uniform uReflectionEnabled of the water material
  rendererPixelRatio    \* the pixel ratio set on the renderer

settingsVars == <<performanceSettings, perfSettingsRef, waterBuild, uReflectionEnabled,
                  rendererPixelRatio>>

vars == <<placeVars, lodVars, buildVars, pureVars, settingsVars>>

(* ------------------------------------------------------------------ *)
(* Scene: the memoised layout                                          *)
(* ------------------------------------------------------------------ *)
FIXED_SEED == 12345

MAX_ATTEMPTS == 10000

\* The layout memo is computed once, and once more when React recomputes it
Runs == {1, 2}

\* The largest count of a single placeObjects call tried on its own
MaxProbeCount == 3

Seeds == {FIXED_SEED}

\* getDeviceSettings(breakpoint).grassPatchCount for mobile, tablet, desktop
GrassPatchCounts == {15, 25, 40}

Request(count, targetZone, minDistance) ==
  [count |-> count, targetZone |-> targetZone, minDistance |-> minDistance]

\* A layout memo that places the grass first
LayoutRequestsGrassFirst(grassPatchCount) ==
  << Request(grassPatchCount, "GRASS", 1),
     Request(5, "TREE", 8),
     Request(5, "BUSH", 3),
     Request(8, "FLOWER", 2),
     Request(2, "EMPTY", 4) >>

\* The calls of the layout memo; minDistance is in half units (4.0 is 8)
LayoutRequests(grassPatchCount) ==
  << Request(5, "TREE", 8),
     Request(5, "BUSH", 3),
     Request(8, "FLOWER", 2),
     Request(2, "EMPTY", 4),
     Request(grassPatchCount, "GRASS", 1) >>

\* minDistance values of a call tried on its own: the default 0, 0.5 and 4.0
ProbeMinDistances == {0, 1, 8}

\* Single calls tried on their own.  No pixel of the map is PATH, so a PATH call
\* samples its whole budget whatever its count and minDistance: one is tried.
ProbeRequests ==
  { <<Request(c, z, m)>> :
      c \in 0..MaxProbeCount, z \in ZoneNames \ {"PATH"}, m \in ProbeMinDistances }
  \cup { <<Request(1, "PATH", 0)>> }

\* const rng = mulberry32(FIXED_SEED): the generator a layout computation starts from
LayoutRngShared(s, old) == old

LayoutRng(s, old) == WordOf(0, s)

\* The loop condition of placeObjects
LoopGuardOffByOne(n, count, att) == n <= count /\ att < MAX_ATTEMPTS

LoopGuard(n, count, att) == n < count /\ att < MAX_ATTEMPTS

\* The separation test against the positions accepted so far
ValidLastOnly(cand, accepted, m) ==
  \/ m = 0
  \/ accepted = <<>>
  \/ ~TooClose(cand, accepted[Len(accepted)], m)

\* A separation test against the first accepted position only
ValidFirstOnly(cand, accepted, m) ==
  \/ ~(m > 0)
  \/ accepted = <<>>
  \/ ~TooClose(cand, accepted[1], m)

Valid(cand, accepted, m) ==
  \/ ~(m > 0)
  \/ \A i \in 1..Len(accepted) : ~TooClose(cand, accepted[i], m)

\* The zone test of a candidate
InZoneSwapped(cand, targetZone) == getLayoutZone(cand.z, cand.x) = targetZone

InZone(cand, targetZone) == getLayoutZone(cand.x, cand.z) = targetZone

\* The batches of a world that is not rendered
LodIdle ==
  /\ fullCount = <<>>
  /\ mesh = <<>>
  /\ camDist = -1
  /\ inFrustum = {}
  /\ steps = <<>>
  /\ uniforms = <<>>
  /\ themeTarget = "none"

\* The scene is not mounted
BuildIdle ==
  /\ faulty = {}
  /\ groundGuarded = TRUE
  /\ bushesGuarded = TRUE
  /\ effects = FALSE
  /\ effectPending = FALSE
  /\ buildPc = "unmounted"
  /\ nextFamily = 0
  /\ buildNo = 0
  /\ mathRandom = [kind |-> "native"]
  /\ handles = <<>>
  /\ arrays = <<>>
  /\ prevArrays = <<>>
  /\ cleanupFaulty = {}
  /\ emptyFamily = "none"
  /\ layoutReady = FALSE
  /\ owned = <<>>
  /\ cleanupRuns = <<>>
  /\ firstPass = <<>>
  /\ console = {}
  /\ frameRequested = FALSE
  /\ updatables = 0
  /\ updatedAfterCleanup = {}

\* No settings panel is shown
SettingsIdle ==
  /\ performanceSettings = <<>>
  /\ perfSettingsRef = <<>>
  /\ waterBuild = 0
  /\ uReflectionEnabled = FALSE
  /\ rendererPixelRatio = 0

\* The result of a lookup that has not returned
Pending == [zone |-> "pending", tuft |-> FALSE]

\* No lookup and no generator call is under way
PureIdle ==
  /\ lookX = <<>>
  /\ lookZ = <<>>
  /\ lookResult = Pending
  /\ gens = <<>>
  /\ outs = <<>>

PlaceInit ==
  /\ seed \in Seeds
  /\ requests \in {LayoutRequests(g) : g \in GrassPatchCounts} \cup ProbeRequests
  /\ run = 1
  /\ call = 0
  /\ rngA = WordOf(0, 0)
  /\ positions = <<>>
  /\ attempts = 0
  /\ outcome = "none"
  /\ pc = "idle"
  /\ results = <<>>
  /\ LodIdle
  /\ BuildIdle
  /\ PureIdle
  /\ SettingsIdle

\* The layout memo starts computing: createLayoutMap, mulberry32(FIXED_SEED),
\* and the first placeObjects call begins.  The memo is computed again for a
\* new mount or for a changed deviceSettings.grassPatchCount.
LayoutStart ==
  /\ pc = "idle"
  /\ run \in Runs
  /\ requests' \in IF run > 1 /\ Len(requests) > 1
                   THEN {LayoutRequests(g) : g \in GrassPatchCounts}
                   ELSE {requests}
  /\ rngA' = LayoutRng(seed, rngA)
  /\ call' = 1
  /\ positions' = <<>>
  /\ attempts' = 0
  /\ outcome' = "none"
  /\ pc' = "placing"
  /\ results' = Append(results, <<>>)
  /\ UNCHANGED <<seed, run, lodVars, buildVars, pureVars, settingsVars>>

\* One iteration of the while loop of placeObjects
PlaceAttempt ==
  /\ pc = "placing"
  /\ LoopGuard(Len(positions), requests[call].count, attempts)
  /\ LET x    == mulberry32Value(rngA)
         a1   == mulberry32State(rngA)
         z    == mulberry32Value(a1)
         cand == [x |-> x, z |-> z]
         req  == requests[call]
     IN  /\ rngA' = mulberry32State(a1)
         /\ IF InZone(cand, req.targetZone)
            THEN IF Valid(cand, positions, req.minDistance)
                 THEN /\ positions' = Append(positions, cand)
                      /\ outcome' = "accepted"
                 ELSE /\ positions' = positions
                      /\ outcome' = "near"
            ELSE /\ positions' = positions
                 /\ outcome' = "zone"
  /\ attempts' = attempts + 1
  /\ UNCHANGED <<seed, requests, run, call, pc, results, lodVars, buildVars, pureVars, settingsVars>>

\* The loop of placeObjects ends and the call returns positions; the next call
\* of the memo begins, or the memo is complete
PlaceReturn ==
  /\ pc = "placing"
  /\ ~LoopGuard(Len(positions), requests[call].count, attempts)
  /\ results' = [results EXCEPT ![run] =
                   Append(@, [positions |-> positions, attempts |-> attempts,
                              request |-> requests[call]])]
  /\ positions' = <<>>
  /\ attempts' = 0
  /\ outcome' = "none"
  /\ IF call < Len(requests)
     THEN /\ call' = call + 1
          /\ UNCHANGED <<run, pc>>
     ELSE /\ call' = 0
          /\ run' = run + 1
          /\ pc' = "idle"
  /\ UNCHANGED <<seed, requests, rngA, lodVars, buildVars, pureVars, settingsVars>>

PlaceNext == LayoutStart \/ PlaceAttempt \/ PlaceReturn

SpecPlace == PlaceInit /\ [][PlaceNext]_vars

(* ------------------------------------------------------------------ *)
(* Placement properties                                                *)
(* ------------------------------------------------------------------ *)
\* A placeObjects call has just returned
JustReturned ==
  /\ results # <<>>
  /\ results[Len(results)] # <<>>
  /\ attempts = 0
  /\ outcome = "none"

\* The call that returned last: its request and what it returned
LastCall == Len(results[Len(results)])

LastRequest == requests[LastCall]

LastReturned == results[Len(results)][LastCall]

\* C1: every position of a list placeObjects returns classifies to the target
\* zone of the call: getLayoutZone(x, z) = targetZone.
C1_ZoneContainment ==
  JustReturned =>
    \A i \in 1..Len(LastReturned.positions) :
      getLayoutZone(LastReturned.positions[i].x, LastReturned.positions[i].z)
        = LastRequest.targetZone

\* A call returned a list of several positions of its zone after rejecting
\* candidates of other zones
C1_Witness ==
  /\ JustReturned
  /\ LastRequest.targetZone = "TREE"
  /\ Len(LastReturned.positions) = 5
  /\ LastReturned.attempts > 5

\* C2: in a list returned by a call with minDistance d > 0, every two distinct
\* positions are at least d apart.
C2_Separation ==
  (JustReturned /\ LastRequest.minDistance > 0) =>
    \A i, j \in 1..Len(LastReturned.positions) :
      i < j => ~TooClose(LastReturned.positions[i], LastReturned.positions[j],
                         LastRequest.minDistance)

\* A candidate of the target zone is rejected for being too close to an
\* accepted position
C2_WitnessRejected ==
  /\ pc = "placing"
  /\ outcome = "near"
  /\ Len(positions) >= 2

\* dx * dx + dz * dz > minDistance * minDistance
Farther(p, q, m) ==
  DigitsLess(ScaledSquaredMinDistance(m), ScaledSquaredDistance(p, q), NumDigits)

\* The candidate the next loop iteration of placeObjects samples
NextCandidate ==
  [x |-> mulberry32Value(rngA), z |-> mulberry32Value(mulberry32State(rngA))]

\* C26: within a placement call a sampled candidate is accepted if and only if
\* it classifies to the target zone and, when minDistance > 0, it is farther
\* than minDistance from every position the call has accepted; a candidate not
\* accepted leaves the accepted positions as they are.
C26_AcceptanceRule ==
  [][(pc = "placing" /\ attempts' = attempts + 1) =>
       LET req == requests[call]
           fits == /\ getLayoutZone(NextCandidate.x, NextCandidate.z) = req.targetZone
                   /\ req.minDistance > 0 =>
                        \A i \in 1..Len(positions) :
                          Farther(NextCandidate, positions[i], req.minDistance)
       IN  /\ fits => positions' = Append(positions, NextCandidate)
           /\ ~fits => positions' = positions]_vars

\* A call with a minimum distance has accepted its third position after
\* rejecting candidates of its zone for being too close
C26_Witness ==
  /\ pc = "placing"
  /\ outcome = "accepted"
  /\ requests[call].minDistance > 0
  /\ Len(positions) = 3
  /\ attempts > 100

\* C3: a call draws at most MAX_ATTEMPTS candidates, each loop iteration uses up
\* one attempt, the loop has ended once the budget is spent, and the list
\* returned is no longer than the requested count.
C3_BoundedPlacement ==
  /\ [](/\ attempts <= MAX_ATTEMPTS
        /\ (pc = "placing" => Len(positions) <= requests[call].count)
        /\ (JustReturned =>
              /\ Len(LastReturned.positions) <= LastRequest.count
              /\ LastReturned.attempts <= MAX_ATTEMPTS))
  /\ [][PlaceAttempt => attempts' = attempts + 1]_vars
  /\ [][(pc = "placing" /\ attempts = MAX_ATTEMPTS) => (call' # call \/ pc' = "idle")]_vars

\* A call whose zone covers no pixel returns the empty list with its budget spent
C3_WitnessEmptyZone ==
  /\ JustReturned
  /\ LastRequest.targetZone = "PATH"
  /\ LastRequest.count > 0
  /\ LastReturned.positions = <<>>
  /\ LastReturned.attempts = MAX_ATTEMPTS

\* C5: a second computation of the layout with the same seed and the same
\* requests returns, call by call, the lists the first one returned.
C5_PlacementDeterminism ==
  Len(results) >= 2 =>
    \A c \in 1..Len(results[2]) :
      results[2][c].request = results[1][c].request =>
        results[2][c].positions = results[1][c].positions

\* Both computations of the whole layout are complete and placed objects
C5_Witness ==
  /\ pc = "idle"
  /\ Len(results) = 2
  /\ Len(requests) = 5
  /\ Len(results[2]) = 5
  /\ Len(results[2][1].positions) = 5
  /\ Len(results[2][5].positions) = requests[5].count
  /\ results[1][5].request = requests[5]

(* ------------------------------------------------------------------ *)
(* Per-frame visibility and LOD.                                       *)
(* A frame is given by the camera's distance to the batch centres and  *)
(* by the set of batches whose bounding volume its frustum meets.      *)
(* The thresholds are whole numbers and the code compares with <, >    *)
(* and <=, so whole distances show every behaviour.                    *)
(* floor(n * 0.4), floor(n * 0.6) and floor(n * 0.1) over doubles      *)
(* equal (4n) div 10, (6n) div 10 and n div 10 for the counts used.    *)
(* ------------------------------------------------------------------ *)
Batches == {"bush", "tree", "flower", "grass"}

\* Largest camera distance of a frame
MaxDist == 24

\* An instance count, other than the ones the builders use, batches are tried with
MaxFullCount == 7

leavesPerBush == 200

leavesPerTree == 1280

flowersPerPatch == 12

BUSH_LOD0_DIST == 6

BUSH_LOD1_DIST == 12

BUSH_LOD2_DIST == 18

BUSH_CULL_DIST == 22

TREE_LOD0_DIST == 12

TREE_LOD1_DIST == 18

FLOWER_CULL_DIST == 15

Floor10(n, tenths) == (n * tenths) \div 10

Mesh(visible, count) == [visible |-> visible, count |-> count]

\* createBushes.update, for one bush
bushUpdateDivides(m, full, dist, seen) ==
  IF ~seen THEN Mesh(FALSE, m.count)
  ELSE IF dist > BUSH_CULL_DIST THEN Mesh(FALSE, m.count)
  ELSE IF dist < BUSH_LOD0_DIST THEN Mesh(TRUE, full)
  ELSE IF dist < BUSH_LOD1_DIST THEN Mesh(TRUE, (full * 10) \div 4)
  ELSE Mesh(TRUE, (full * 10) \div 1)

bushUpdateTiersSwapped(m, full, dist, seen) ==
  IF ~seen THEN Mesh(FALSE, m.count)
  ELSE IF dist > BUSH_CULL_DIST THEN Mesh(FALSE, m.count)
  ELSE IF dist < BUSH_LOD0_DIST THEN Mesh(TRUE, Floor10(full, 4))
  ELSE IF dist < BUSH_LOD1_DIST THEN Mesh(TRUE, full)
  ELSE Mesh(TRUE, Floor10(full, 1))

bushUpdateNoCull(m, full, dist, seen) ==
  IF ~seen THEN Mesh(FALSE, m.count)
  ELSE IF dist < BUSH_LOD0_DIST THEN Mesh(TRUE, full)
  ELSE IF dist < BUSH_LOD1_DIST THEN Mesh(TRUE, Floor10(full, 4))
  ELSE Mesh(TRUE, Floor10(full, 1))

\* A bush update that leaves the count alone beyond LOD2_DIST
bushUpdateKeepsFarCount(m, full, dist, seen) ==
  IF ~seen THEN Mesh(FALSE, m.count)
  ELSE IF dist > BUSH_CULL_DIST THEN Mesh(FALSE, m.count)
  ELSE IF dist < BUSH_LOD0_DIST THEN Mesh(TRUE, full)
  ELSE IF dist < BUSH_LOD1_DIST THEN Mesh(TRUE, Floor10(full, 4))
  ELSE IF dist < BUSH_LOD2_DIST THEN Mesh(TRUE, Floor10(full, 1))
  ELSE Mesh(TRUE, m.count)

bushUpdate(m, full, dist, seen) ==
  IF ~seen THEN Mesh(FALSE, m.count)
  ELSE IF dist > BUSH_CULL_DIST THEN Mesh(FALSE, m.count)
  ELSE IF dist < BUSH_LOD0_DIST THEN Mesh(TRUE, full)
  ELSE IF dist < BUSH_LOD1_DIST THEN Mesh(TRUE, Floor10(full, 4))
  ELSE IF dist < BUSH_LOD2_DIST THEN Mesh(TRUE, Floor10(full, 1))
  ELSE Mesh(TRUE, Floor10(full, 1))

\* A tree update that rounds the reduced counts up
treeUpdateCeil(m, full, dist, seen) ==
  IF ~seen THEN Mesh(FALSE, m.count)
  ELSE IF dist < TREE_LOD0_DIST THEN Mesh(TRUE, full)
  ELSE IF dist < TREE_LOD1_DIST THEN Mesh(TRUE, (full * 6 + 9) \div 10)
  ELSE Mesh(TRUE, (full * 4 + 9) \div 10)

\* createTrees.update, for one tree
treeUpdate(m, full, dist, seen) ==
  IF ~seen THEN Mesh(FALSE, m.count)
  ELSE IF dist < TREE_LOD0_DIST THEN Mesh(TRUE, full)
  ELSE IF dist < TREE_LOD1_DIST THEN Mesh(TRUE, Floor10(full, 6))
  ELSE Mesh(TRUE, Floor10(full, 4))

\* createFlowers.update, for one patch: its stems mesh and its heads mesh get
\* the same flag
flowerUpdate(m, full, dist, seen) ==
  IF ~seen THEN Mesh(FALSE, m.count)
  ELSE Mesh(dist <= FLOWER_CULL_DIST, m.count)

\* createGrass.update writes the two uniforms and touches no mesh
grassUpdate(m, full, dist, seen) == m

\* What update does for one batch of family b, in program order: the refresh of
\* the family's shared uniforms comes first, before the loop over the batches;
\* inside the loop the frustum test, then the distance test, then the tier
\* selection, each continue ending the work for the batch
familySteps(b, dist, seen) ==
  CASE b = "bush" ->
         IF ~seen THEN <<"uniforms", "frustum">>
         ELSE IF dist > BUSH_CULL_DIST THEN <<"uniforms", "frustum", "distance">>
         ELSE <<"uniforms", "frustum", "distance", "tier">>
    [] b = "tree" ->
         IF ~seen THEN <<"uniforms", "frustum">>
         ELSE <<"uniforms", "frustum", "distance", "tier">>
    [] b = "flower" ->
         IF ~seen THEN <<"uniforms", "frustum">>
         ELSE <<"uniforms", "frustum", "distance">>
    [] b = "grass" -> <<"uniforms">>

familyUpdate(b, m, full, dist, seen) ==
  CASE b = "bush"   -> bushUpdate(m, full, dist, seen)
    [] b = "tree"   -> treeUpdate(m, full, dist, seen)
    [] b = "flower" -> flowerUpdate(m, full, dist, seen)
    [] b = "grass"  -> grassUpdate(m, full, dist, seen)

ThemeNames == {"light", "dark"}

\* A theme effect that also shows every batch again
themeEffectShowsAll(refs, themeName) ==
  [refs EXCEPT !.themeTarget = themeName,
               !.mesh = [b \in DOMAIN refs.mesh |-> Mesh(TRUE, refs.mesh[b].count)]]

\* The theme effect of Scene: themeTargetRef.current = themeName
themeEffect(refs, themeName) == [refs EXCEPT !.themeTarget = themeName]

\* The counts the builders give their batches
BuiltCounts ==
  [b \in Batches |->
     CASE b = "bush"   -> leavesPerBush
       [] b = "tree"   -> leavesPerTree
       [] b = "flower" -> flowersPerPatch
       [] b = "grass"  -> flowersPerPatch]

\* The built counts with a grass batch of 300 instances
ScenarioCounts == [BuiltCounts EXCEPT !["grass"] = 300]

LodInit ==
  /\ fullCount \in {BuiltCounts, ScenarioCounts}
                   \cup {[b \in Batches |-> n] : n \in {0, MaxFullCount}}
  /\ mesh = [b \in Batches |-> Mesh(TRUE, fullCount[b])]
  /\ camDist = -1
  /\ inFrustum = {}
  /\ steps = [b \in Batches |-> <<>>]
  /\ uniforms = [b \in Batches |-> -1]
  /\ themeTarget \in ThemeNames
  /\ seed = FIXED_SEED
  /\ requests = <<>>
  /\ run = 1
  /\ call = 0
  /\ rngA = WordOf(0, 0)
  /\ positions = <<>>
  /\ attempts = 0
  /\ outcome = "none"
  /\ pc = "rendering"
  /\ results = <<>>
  /\ BuildIdle
  /\ PureIdle
  /\ SettingsIdle

\* envUpdate: one frame's update of every family
Frame ==
  /\ pc = "rendering"
  /\ \E dist \in 0..MaxDist, seen \in SUBSET Batches :
       /\ camDist' = dist
       /\ inFrustum' = seen
       /\ mesh' = [b \in Batches |-> familyUpdate(b, mesh[b], fullCount[b], dist, b \in seen)]
       /\ steps' = [b \in Batches |-> familySteps(b, dist, b \in seen)]
       /\ uniforms' = [b \in Batches |-> dist]
  /\ UNCHANGED <<fullCount, themeTarget, placeVars, buildVars, pureVars, settingsVars>>

\* The theme name changes between two frames and the theme effect runs
SetTheme ==
  /\ pc = "rendering"
  /\ \E themeName \in ThemeNames \ {themeTarget} :
       LET after == themeEffect([themeTarget |-> themeTarget, mesh |-> mesh,
                                 uniforms |-> uniforms], themeName)
       IN /\ themeTarget' = after.themeTarget
          /\ mesh' = after.mesh
          /\ uniforms' = after.uniforms
  /\ UNCHANGED <<fullCount, camDist, inFrustum, steps, placeVars, buildVars, pureVars, settingsVars>>

LodNext == Frame \/ SetTheme

SpecLOD == LodInit /\ [][LodNext]_vars

\* The instances of batch b that are drawn: none when the mesh is invisible
ActiveCount(b) == IF mesh[b].visible THEN mesh[b].count ELSE 0

\* C6: after any sequence of updates the count of every batch's mesh is at most
\* the count the batch was built with.
C6_ActiveCountBound ==
  \A b \in Batches : mesh[b].count <= fullCount[b] /\ ActiveCount(b) <= fullCount[b]

\* A bush is drawn with a reduced count after an update
C6_Witness ==
  /\ camDist >= BUSH_LOD0_DIST
  /\ mesh["bush"].visible
  /\ fullCount["bush"] = leavesPerBush
  /\ 0 < mesh["bush"].count /\ mesh["bush"].count < fullCount["bush"]

\* C7: for a batch inside the frustum in two updates, the second at a greater
\* camera distance than the first, the second update selects no more active
\* instances than the first.
C7_LodMonotone ==
  [][\A b \in Batches :
       (b \in inFrustum /\ b \in inFrustum' /\ camDist' > camDist)
         => ActiveCount(b)' <= ActiveCount(b)]_vars

\* A tree has dropped to its lowest tier and a bush has been culled, both inside
\* the frustum
C7_Witness ==
  /\ {"tree", "bush"} \subseteq inFrustum
  /\ fullCount["tree"] = leavesPerTree
  /\ mesh["tree"].visible /\ mesh["tree"].count = Floor10(leavesPerTree, 4)
  /\ ~mesh["bush"].visible

\* The hard cull radius of the families whose update has one
CullDist(b) == IF b = "bush" THEN BUSH_CULL_DIST ELSE FLOWER_CULL_DIST

C9_FrustumShortCircuit ==
  camDist >= 0 => \A b \in Batches \ inFrustum : ~mesh[b].visible

\* ---------------------------------------------------------------------------
\* World construction: initScene builds the families in a fixed order, each
\* constructor drawing its per-instance values from Math.random; the firefly
\* effect of Scene builds or removes the fireflies after the scene is mounted.
\* ---------------------------------------------------------------------------

\* The constructors initScene calls, in call order
Creators == <<"sky", "ground", "water", "rocks", "trees", "pines", "bushes", "flowers",
              "balloons", "grass">>

Families == {Creators[i] : i \in 1..Len(Creators)} \cup {"fireflies"}

\* The families that own instanced batches
InstancedFamilies == {"grass", "flowers", "bushes", "trees", "pines", "rocks", "fireflies",
                      "balloons"}

\* Instances built per instanced family
MaxInstances == 1

\* The values two calls of the native Math.random can differ by
AmbientValues == {0, 1}

\* The seed a constructor installs as Math.random, 0 when it installs none
FamilySeed(f) ==
  CASE f = "trees" -> WordOf(15, 4614)      \* 987654
    [] f = "pines" -> WordOf(5, 6775)       \* 334455
    [] f = "bushes" -> WordOf(1, 57920)     \* 123456
    [] f = "flowers" -> WordOf(0, 13579)
    [] f = "balloons" -> WordOf(1, 13374)   \* 78910
    [] f = "grass" -> WordOf(0, 54321)
    [] OTHER -> WordOf(0, 0)

IsSeeded(f) == FamilySeed(f) # WordOf(0, 0)

\* Whether a throw inside the constructor is caught there
HasCatch(f) ==
  CASE f = "ground" -> groundGuarded
    [] f = "bushes" -> bushesGuarded
    [] OTHER -> TRUE

\* The families built from a list of placed positions
PositionConsumers == {"rocks", "trees", "pines", "bushes", "flowers", "grass"}

InstanceCount(f) ==
  IF f \in InstancedFamilies /\ f # emptyFamily THEN MaxInstances ELSE 0

\* The first n values of the generator whose closure variable is a
RECURSIVE SeededDraws(_, _)
SeededDraws(a, n) ==
  IF n = 0 THEN <<>>
  ELSE <<mulberry32Value(a)>> \o SeededDraws(mulberry32State(a), n - 1)

RECURSIVE Advance(_, _)
Advance(a, n) == IF n = 0 THEN a ELSE Advance(mulberry32State(a), n - 1)

\* The first MaxInstances values of each family generator, computed once
FirstDraws ==
  [a \in {FamilySeed(f) : f \in {g \in InstancedFamilies : IsSeeded(g)}} |->
     SeededDraws(a, MaxInstances)]

\* The first n values of the generator seeded with a
SeededValues(a, n) ==
  IF a \in DOMAIN FirstDraws /\ n <= MaxInstances THEN SubSeq(FirstDraws[a], 1, n)
  ELSE SeededDraws(a, n)

\* What n calls of the installed Math.random return: a seeded generator fixes
\* them, the native one may return anything
Draws(random, n) ==
  IF random.kind = "seeded" THEN {SeededValues(random.a, n)}
  ELSE [1..n -> AmbientValues]

AfterDraws(random, n) ==
  IF random.kind = "seeded" THEN [kind |-> "seeded", a |-> Advance(random.a, n)]
  ELSE random

Native == [kind |-> "native"]

\* Math.random while the constructor of f runs: the generator the constructor
\* installs, else the one it finds
Installed(f, random) ==
  IF IsSeeded(f) THEN [kind |-> "seeded", a |-> FamilySeed(f)] ELSE random

\* What the constructor of f allocates: scene objects, geometries, materials
\* and textures, by the names the constructor gives them
Allocated(f) ==
  CASE f = "sky" -> {"skyMesh", "geometry", "material"}
    [] f = "ground" ->
         IF groundGuarded
         THEN {"mesh", "geometry", "material", "grassImpostorTexture", "shadowTexture"}
         ELSE {"mesh", "geometry", "material"}
    [] f = "water" -> {"reflector", "waterGeometry", "material"}
    [] f = "rocks" -> {"mesh", "geometry", "material"}
    [] f = "trees" -> {"woodMesh", "woodGeo", "trunkMaterial", "leafMeshes", "leafGeo",
                       "leafMaterial", "clusterTexture"}
    [] f = "pines" -> {"woodMesh", "leafMesh", "woodGeo", "leafGeo", "trunkMaterial",
                       "leafMaterial", "boughTexture"}
    [] f = "bushes" -> {"instancedMeshes", "planeGeo", "baseGeo", "clusterTexture", "material"}
    [] f = "flowers" -> {"stemsMeshes", "headsMeshes", "stemGeo", "headGeo", "stemMaterial",
                         "headMaterial", "headTexture"}
    [] f = "balloons" -> {"balloonGroups", "materials", "basketMaterials", "balloonGeo",
                          "basketGeo", "ropeGeo"}
    [] f = "grass" -> {"meshes", "sharedGeometry", "sharedMaterial", "grassTexture"}
    [] f = "fireflies" -> {"mesh", "geometry", "material"}

\* What the cleanup closure of f removes from the scene or disposes
Released(f) ==
  CASE f = "sky" -> {"skyMesh", "geometry", "material"}
    [] f = "ground" ->
         IF groundGuarded
         THEN {"mesh", "geometry", "material", "grassImpostorTexture", "shadowTexture"}
         ELSE {"mesh", "geometry", "material"}
    [] f = "water" -> {"reflector", "waterGeometry", "material"}
    [] f = "rocks" -> {"mesh", "geometry", "material"}
    [] f = "trees" -> {"woodMesh", "woodGeo", "trunkMaterial", "leafMeshes", "leafGeo",
                       "leafMaterial", "clusterTexture"}
    [] f = "pines" -> {"woodMesh", "leafMesh", "woodGeo", "leafGeo", "trunkMaterial",
                       "leafMaterial", "boughTexture"}
    [] f = "bushes" -> {"instancedMeshes", "planeGeo", "baseGeo", "clusterTexture", "material"}
    [] f = "flowers" -> {"stemsMeshes", "headsMeshes", "stemGeo", "headGeo", "stemMaterial",
                         "headMaterial", "headTexture"}
    [] f = "balloons" -> {"balloonGroups", "materials", "basketMaterials", "balloonGeo",
                          "basketGeo", "ropeGeo"}
    [] f = "grass" -> {"meshes", "sharedGeometry", "sharedMaterial", "grassTexture"}
    [] f = "fireflies" -> {"mesh", "geometry", "material"}

\* A constructor that cannot build a batch of no instances
ConstructedNeedsInstance(f, random, drawn) ==
  LET threw == f \in faulty \/ (f \in PositionConsumers /\ InstanceCount(f) = 0)
  IN [values |-> IF threw THEN <<>> ELSE drawn,
      handle |-> IF ~threw THEN "live" ELSE IF HasCatch(f) THEN "noop" ELSE "none",
      thrown |-> threw /\ ~HasCatch(f),
      random |-> random]

\* A constructor that restores Math.random on normal return only
ConstructedRestoresOnReturn(f, random, drawn) ==
  LET installed == IF IsSeeded(f) THEN [kind |-> "seeded", a |-> FamilySeed(f)] ELSE random
      threw == f \in faulty
      n == InstanceCount(f)
  IN [values |-> IF threw THEN <<>> ELSE drawn,
      handle |-> IF ~threw THEN "live" ELSE IF HasCatch(f) THEN "noop" ELSE "none",
      thrown |-> threw /\ ~HasCatch(f),
      random |-> IF threw THEN installed
                 ELSE IF IsSeeded(f) THEN random ELSE AfterDraws(random, n)]

\* One constructor call: install the seeded generator if the family has one,
\* build the instances (or throw), restore Math.random in the finally clause
\* and return the handles.  drawn is what the installed Math.random returned;
\* result.thrown means the exception left the call.
Constructed(f, random, drawn) ==
  LET threw == f \in faulty
      n == InstanceCount(f)
  IN [values |-> IF threw THEN <<>> ELSE drawn,
      handle |-> IF ~threw THEN "live" ELSE IF HasCatch(f) THEN "noop" ELSE "none",
      thrown |-> threw /\ ~HasCatch(f),
      random |-> IF IsSeeded(f) THEN random
                 ELSE IF threw THEN random ELSE AfterDraws(random, n)]

NoHandles == [f \in Families |-> "none"]
NoArrays == [f \in Families |-> <<>>]
NothingOwned == [f \in Families |-> {}]
NoRuns == [f \in Families |-> 0]
NoPass == [built |-> {"-"}, updated |-> {"-"}, effects |-> FALSE]

\* One environment fault at most: a constructor that throws, a cleanup that
\* throws, or a placement call that returned no position
Environments ==
  {[faulty |-> F, cleanupFaulty |-> {}, emptyFamily |-> "none"] :
     F \in {G \in SUBSET Families : Cardinality(G) <= 1}}
  \cup {[faulty |-> {}, cleanupFaulty |-> {f}, emptyFamily |-> "none"] : f \in Families}
  \cup {[faulty |-> {}, cleanupFaulty |-> {}, emptyFamily |-> f] : f \in PositionConsumers}

BuildInit ==
  /\ \E env \in Environments :
       /\ faulty = env.faulty
       /\ cleanupFaulty = env.cleanupFaulty
       /\ emptyFamily = env.emptyFamily
  /\ groundGuarded \in BOOLEAN
  /\ bushesGuarded \in BOOLEAN
  /\ effects \in BOOLEAN
  /\ effectPending = FALSE
  /\ buildPc = "unmounted"
  /\ nextFamily = 0
  /\ buildNo = 0
  /\ mathRandom = Native
  /\ handles = NoHandles
  /\ arrays = NoArrays
  /\ prevArrays = NoArrays
  /\ layoutReady = FALSE
  /\ owned = NothingOwned
  /\ cleanupRuns = NoRuns
  /\ firstPass = NoPass
  /\ console = {}
  /\ frameRequested = FALSE
  /\ updatables = 0
  /\ updatedAfterCleanup = {}
  /\ seed = FIXED_SEED
  /\ requests = <<>>
  /\ run = 0
  /\ call = 0
  /\ rngA = WordOf(0, 0)
  /\ positions = <<>>
  /\ attempts = 0
  /\ outcome = "none"
  /\ pc = "building"
  /\ results = <<>>
  /\ LodIdle
  /\ PureIdle
  /\ SettingsIdle

Builds == {1, 2}

\* Scene renders (the layout memo is evaluated) and mounts: the effect of
\* ThreeCanvas is about to call onInit, the firefly effect of Scene is
\* scheduled behind it
Mount ==
  /\ buildPc = "unmounted"
  /\ buildNo + 1 \in Builds
  /\ buildNo' = buildNo + 1
  /\ buildPc' = "init"
  /\ nextFamily' = 1
  /\ effectPending' = TRUE
  /\ layoutReady' = TRUE
  /\ handles' = NoHandles
  /\ arrays' = NoArrays
  /\ owned' = NothingOwned
  /\ cleanupRuns' = NoRuns
  /\ firstPass' = NoPass
  /\ console' = {}
  /\ frameRequested' = FALSE
  /\ updatables' = 0
  /\ UNCHANGED <<faulty, groundGuarded, bushesGuarded, effects, mathRandom, prevArrays,
                 cleanupFaulty, emptyFamily, updatedAfterCleanup,
                 placeVars, lodVars, pureVars, settingsVars>>

\* initScene calls the next constructor; an exception that leaves the
\* constructor leaves initScene as well
Construct ==
  /\ buildPc = "init"
  /\ LET f == Creators[nextFamily]
     IN \E drawn \in Draws(Installed(f, mathRandom), InstanceCount(f)) :
          LET r == Constructed(f, mathRandom, drawn)
          IN /\ arrays' = [arrays EXCEPT ![f] = r.values]
             /\ handles' = [handles EXCEPT ![f] = r.handle]
             /\ owned' = [owned EXCEPT ![f] = IF r.handle = "live" THEN Allocated(f) ELSE {}]
             /\ console' = IF r.handle = "noop" THEN console \cup {f} ELSE console
             /\ mathRandom' = r.random
             /\ buildPc' = IF r.thrown THEN "aborted"
                           ELSE IF nextFamily = Len(Creators) THEN "mounted" ELSE "init"
             /\ nextFamily' = IF r.thrown \/ nextFamily = Len(Creators) THEN nextFamily
                              ELSE nextFamily + 1
             /\ updatables' = IF ~r.thrown /\ nextFamily = Len(Creators) THEN buildNo
                              ELSE updatables
  /\ UNCHANGED <<faulty, groundGuarded, bushesGuarded, effects, effectPending, buildNo,
                 prevArrays, cleanupFaulty, emptyFamily, layoutReady, cleanupRuns,
                 firstPass, frameRequested, updatedAfterCleanup,
                 placeVars, lodVars, pureVars, settingsVars>>

\* One frame: animate requests the next frame and calls onUpdate, which runs
\* the functions in updatablesRef: envUpdate and with it the update of every
\* family that has handles.  The first frame runs inside the effect of
\* ThreeCanvas, right after onInit returned.
Animate ==
  /\ \/ buildPc = "mounted" /\ firstPass = NoPass
     \/ frameRequested
  /\ frameRequested' = TRUE
  /\ LET invoked == IF updatables = 0 THEN {} ELSE {f \in Families : handles[f] # "none"}
     IN /\ firstPass' = IF firstPass = NoPass
                        THEN [built |-> {f \in Families : handles[f] # "none"},
                              updated |-> invoked,
                              effects |-> effects]
                        ELSE firstPass
        /\ updatedAfterCleanup' =
             updatedAfterCleanup
               \cup {f \in invoked : cleanupRuns[f] > 0 \/ buildPc # "mounted"}
  /\ UNCHANGED <<faulty, groundGuarded, bushesGuarded, effects, effectPending, buildPc,
                 nextFamily, buildNo, mathRandom, handles, arrays, prevArrays,
                 cleanupFaulty, emptyFamily, layoutReady, owned, cleanupRuns, console,
                 updatables, placeVars, lodVars, pureVars, settingsVars>>

\* The firefly effect of Scene; it runs after the effect of ThreeCanvas
FireflyEffect ==
  /\ buildPc = "mounted"
  /\ firstPass # NoPass
  /\ effectPending
  /\ effectPending' = FALSE
  /\ \/ /\ effects /\ handles["fireflies"] = "none"
        /\ \E drawn \in Draws(mathRandom, InstanceCount("fireflies")) :
             LET r == Constructed("fireflies", mathRandom, drawn)
             IN /\ arrays' = [arrays EXCEPT !["fireflies"] = r.values]
                /\ handles' = [handles EXCEPT !["fireflies"] = r.handle]
                /\ owned' = [owned EXCEPT !["fireflies"] =
                               IF r.handle = "live" THEN Allocated("fireflies") ELSE {}]
                /\ cleanupRuns' = [cleanupRuns EXCEPT !["fireflies"] = 0]
                /\ console' = IF r.handle = "noop" THEN console \cup {"fireflies"}
                              ELSE console
                /\ mathRandom' = r.random
     \/ /\ ~effects /\ handles["fireflies"] # "none"
        /\ arrays' = [arrays EXCEPT !["fireflies"] = <<>>]
        /\ handles' = [handles EXCEPT !["fireflies"] = "none"]
        /\ owned' = [owned EXCEPT !["fireflies"] = @ \ Released("fireflies")]
        /\ cleanupRuns' = [cleanupRuns EXCEPT !["fireflies"] = @ + 1]
        /\ UNCHANGED <<mathRandom, console>>
     \/ /\ effects = (handles["fireflies"] # "none")
        /\ UNCHANGED <<arrays, handles, mathRandom, owned, cleanupRuns, console>>
  /\ UNCHANGED <<faulty, groundGuarded, bushesGuarded, effects, buildPc, nextFamily, buildNo,
                 prevArrays, cleanupFaulty, emptyFamily, layoutReady, firstPass,
                 frameRequested, updatables, updatedAfterCleanup,
                 placeVars, lodVars, pureVars, settingsVars>>

\* The user switches the effects setting; React schedules the firefly effect
SetEffects ==
  /\ buildPc = "mounted"
  /\ firstPass # NoPass
  /\ ~effectPending
  /\ effects' = ~effects
  /\ effectPending' = TRUE
  /\ UNCHANGED <<faulty, groundGuarded, bushesGuarded, buildPc, nextFamily, buildNo,
                 mathRandom, handles, arrays, prevArrays, cleanupFaulty, emptyFamily,
                 layoutReady, owned, cleanupRuns, firstPass, console, frameRequested,
                 updatables, updatedAfterCleanup, placeVars, lodVars, pureVars, settingsVars>>

\* The order in which the closure initScene returned calls the cleanups
CleanupOrder == <<"sky", "water", "bushes", "trees", "pines", "rocks", "ground", "grass",
                  "flowers", "balloons", "fireflies">>

CleanupThrows(f) == handles[f] = "live" /\ f \in cleanupFaulty

\* The position in CleanupOrder of the first cleanup that throws, past the end if none
RECURSIVE FirstThrow(_)
FirstThrow(i) ==
  IF i > Len(CleanupOrder) THEN i
  ELSE IF CleanupThrows(CleanupOrder[i]) THEN i
  ELSE FirstThrow(i + 1)

\* The families whose cleanup the closure calls: the calls are plain
\* statements, so a throw ends the closure
CleanupsCalled ==
  {CleanupOrder[i] : i \in {j \in 1..Len(CleanupOrder) :
                              j <= FirstThrow(1) /\ handles[CleanupOrder[j]] # "none"}}

\* A cleanup that leaves the requested frame alone
cancelAnimationFrameNever(requested) == requested

\* cancelAnimationFrame(animationFrameId), the first statement but one of the
\* cleanup of the ThreeCanvas effect
cancelAnimationFrame(requested) == FALSE

\* The page is left: the cleanup of the ThreeCanvas effect cancels the
\* requested frame and runs the closure initScene returned
Teardown ==
  /\ buildPc = "mounted"
  /\ firstPass # NoPass
  /\ ~effectPending
  /\ buildPc' = "unmounted"
  /\ prevArrays' = arrays
  /\ cleanupRuns' = [f \in Families |->
                       IF f \in CleanupsCalled THEN cleanupRuns[f] + 1 ELSE cleanupRuns[f]]
  /\ owned' = [f \in Families |->
                 IF f \in CleanupsCalled /\ ~CleanupThrows(f) THEN owned[f] \ Released(f)
                 ELSE owned[f]]
  /\ handles' = IF FirstThrow(1) > Len(CleanupOrder)
                THEN [handles EXCEPT !["fireflies"] = "none"]
                ELSE handles
  /\ arrays' = NoArrays
  /\ nextFamily' = 0
  /\ layoutReady' = FALSE
  /\ frameRequested' = cancelAnimationFrame(frameRequested)
  /\ updatables' = IF FirstThrow(1) > Len(CleanupOrder) THEN 0 ELSE updatables
  /\ UNCHANGED <<faulty, groundGuarded, bushesGuarded, effects, effectPending, buildNo,
                 mathRandom, cleanupFaulty, emptyFamily, firstPass, console,
                 updatedAfterCleanup, placeVars, lodVars, pureVars, settingsVars>>

\* A dependency of the ThreeCanvas effect changes while Scene stays mounted:
\* the anti-aliasing setting, or onInit after a layout change.  The cleanup of
\* the effect runs as in Teardown and the effect runs again, calling initScene
\* on a new scene.  The firefly effect of Scene runs again only when the same
\* render changed one of its own dependencies, as a breakpoint change does
\* through fireflyCount and an anti-aliasing change does not.  The remount is
\* explored in the environments without a fault; in the others the build ends
\* in Teardown.
Remount ==
  /\ buildPc = "mounted"
  /\ firstPass # NoPass
  /\ ~effectPending
  /\ buildNo + 1 \in Builds
  /\ faulty = {} /\ cleanupFaulty = {} /\ emptyFamily = "none"
  /\ FirstThrow(1) > Len(CleanupOrder)
  /\ buildNo' = buildNo + 1
  /\ buildPc' = "init"
  /\ nextFamily' = 1
  /\ effectPending' \in BOOLEAN
  /\ layoutReady' = TRUE
  /\ prevArrays' = arrays
  /\ handles' = NoHandles
  /\ arrays' = NoArrays
  /\ owned' = [f \in Families |->
                 IF f \in CleanupsCalled THEN owned[f] \ Released(f) ELSE owned[f]]
  /\ cleanupRuns' = NoRuns
  /\ firstPass' = NoPass
  /\ console' = {}
  /\ frameRequested' = cancelAnimationFrame(frameRequested)
  /\ updatables' = 0
  /\ UNCHANGED <<faulty, groundGuarded, bushesGuarded, effects, mathRandom,
                 cleanupFaulty, emptyFamily, updatedAfterCleanup,
                 placeVars, lodVars, pureVars, settingsVars>>

BuildNext ==
  Mount \/ Construct \/ Animate \/ FireflyEffect \/ SetEffects \/ Teardown \/ Remount

SpecBuild == BuildInit /\ [][BuildNext]_vars

\* The second world build is complete and has the same per-family counts as
\* the first
SecondBuildSettled ==
  /\ buildNo = 2
  /\ buildPc = "mounted"
  /\ ~effectPending
  /\ \A f \in InstancedFamilies : Len(arrays[f]) = Len(prevArrays[f])

\* C4: two world builds with the same seed and the same per-family counts
\* produce identical per-instance arrays for every instanced family (grass,
\* flower, bush, tree, pine, rock, firefly, balloon).
C4_BuildDeterminism ==
  SecondBuildSettled => \A f \in InstancedFamilies : arrays[f] = prevArrays[f]

\* The families that draw from a generator they seeded themselves rebuild
\* the same arrays
C4_SeededFamiliesRepeat ==
  SecondBuildSettled => \A f \in InstancedFamilies : IsSeeded(f) => arrays[f] = prevArrays[f]

BuiltFamilies == {Creators[i] : i \in 1..Len(Creators)}

\* C10: if the construction of any one family throws, that family yields
\* no-op handles, every other family is still constructed and the scene
\* initialisation completes.
C10_FailureIsolation ==
  /\ buildPc # "aborted"
  /\ buildPc = "mounted" =>
       \A f \in BuiltFamilies : handles[f] = IF f \in faulty THEN "noop" ELSE "live"

\* With the guarded constructors in use a throwing family is isolated
C10_GuardedIsolation ==
  (groundGuarded /\ bushesGuarded) => C10_FailureIsolation

\* The world build is over: the scene was unmounted, or initScene was aborted
BuildOver == buildNo >= 1 /\ buildPc \in {"unmounted", "aborted"}

\* C11: for every world build, the cleanup of each successfully constructed
\* family runs exactly once, never twice and never not at all, and releases
\* everything the construction of the family allocated.
C11_ExactlyOnceTeardown ==
  /\ \A f \in Families : cleanupRuns[f] <= 1
  /\ BuildOver =>
       \A f \in Families :
         /\ owned[f] = {}
         /\ (f \in BuiltFamilies /\ handles[f] = "live") => cleanupRuns[f] = 1

\* When initScene completes and no cleanup throws, the teardown is exactly once
C11_CompletedBuildTeardown ==
  (cleanupFaulty = {} /\ buildPc # "aborted") => C11_ExactlyOnceTeardown

\* C12: if the cleanup of one family throws during the teardown, the cleanups
\* of all other families still run.
C12_GuardedTeardown ==
  (buildPc = "unmounted" /\ buildNo >= 1) =>
    \A f \in Families \ cleanupFaulty :
      (f \in BuiltFamilies \/ handles[f] # "none") => cleanupRuns[f] = 1

\* C13: the placement is complete before a family's batch is built, and every
\* family of the world is built before the first per-frame pass runs.
C13_BuildOrdering ==
  /\ buildPc \in {"init", "mounted", "aborted"} =>
       \A f \in Families : handles[f] # "none" => layoutReady
  /\ firstPass # NoPass =>
       /\ BuiltFamilies \subseteq firstPass.built
       /\ firstPass.effects => "fireflies" \in firstPass.built

\* The families initScene constructs are all built before the first pass
C13_InitSceneFamiliesFirst ==
  /\ buildPc \in {"init", "mounted", "aborted"} =>
       \A f \in Families : handles[f] # "none" => layoutReady
  /\ firstPass # NoPass => BuiltFamilies \subseteq firstPass.built

\* C14: a placement call that accepts fewer positions than requested returns
\* the shorter list without raising an exception, and logs the shortfall.
C14_UnderfulfilmentReported ==
  (JustReturned /\ Len(LastReturned.positions) < LastRequest.count) =>
    /\ pc \in {"placing", "idle"}
    /\ console # {}

\* The shorter list is returned and the layout goes on
C14_ShortListReturned ==
  (JustReturned /\ Len(LastReturned.positions) < LastRequest.count) =>
    pc \in {"placing", "idle"}

C19_SeedScenario ==
  (/\ JustReturned
   /\ seed = 12345
   /\ Len(requests) = 5
   /\ requests[1] = Request(5, "TREE", 8)
   /\ LastRequest = Request(2, "EMPTY", 4)) =>
    /\ Len(LastReturned.positions) = 2
    /\ \A i \in 1..Len(LastReturned.positions) :
         getLayoutZone(LastReturned.positions[i].x, LastReturned.positions[i].z) = "EMPTY"

\* The rock call of the layout returns at most 2 positions, each of zone EMPTY
C19_RocksInEmptyZone ==
  (JustReturned /\ LastRequest = Request(2, "EMPTY", 4)) =>
    /\ Len(LastReturned.positions) <= 2
    /\ \A i \in 1..Len(LastReturned.positions) :
         getLayoutZone(LastReturned.positions[i].x, LastReturned.positions[i].z) = "EMPTY"

\* C20: a grass batch of 300 instances, updated with the camera at distance 6
\* and the batch inside the frustum, has active count 120 and is visible.
C20_GrassScenario ==
  (fullCount["grass"] = 300 /\ camDist = 6 /\ "grass" \in inFrustum) =>
    /\ mesh["grass"].visible
    /\ ActiveCount("grass") = 120

\* The grass batch of the scenario stays visible with all its instances
C20_GrassKeepsFullCount ==
  (fullCount["grass"] = 300 /\ camDist = 6 /\ "grass" \in inFrustum) =>
    /\ mesh["grass"].visible
    /\ ActiveCount("grass") = 300


\* tierFraction of the families, in tenths: the step function of distance each
\* update selects its count by; flowers and grass have one tier
TierTenths(b, dist) ==
  CASE b = "bush" ->
         IF dist < BUSH_LOD0_DIST THEN 10 ELSE IF dist < BUSH_LOD1_DIST THEN 4 ELSE 1
    [] b = "tree" ->
         IF dist < TREE_LOD0_DIST THEN 10 ELSE IF dist < TREE_LOD1_DIST THEN 6 ELSE 4
    [] OTHER -> 10

\* C22: every batch an update leaves visible has the active instance count
\* floor(totalCount * tierFraction(d)) for the camera distance d of that update.
C22_DensityTier ==
  (pc = "rendering" /\ camDist >= 0) =>
    \A b \in Batches :
      mesh[b].visible => mesh[b].count = (fullCount[b] * TierTenths(b, camDist)) \div 10

\* A tree is drawn in its 60% tier and a bush in its 10% tier
C22_Witness ==
  /\ pc = "rendering"
  /\ camDist >= TREE_LOD0_DIST /\ camDist < TREE_LOD1_DIST
  /\ fullCount["tree"] = leavesPerTree
  /\ mesh["tree"].visible /\ mesh["tree"].count = 768
  /\ fullCount["bush"] = leavesPerBush
  /\ mesh["bush"].visible /\ mesh["bush"].count = 20

FirstFrame(b) ==
  familyUpdate(b, Mesh(TRUE, fullCount[b]), fullCount[b], camDist, b \in inFrustum)

\* C29: after an update, whatever the earlier frames left, the visible flag of
\* every batch and the active instance count of every visible batch are what
\* the same frustum and camera position give on a batch that was never updated.
C29_HistoryIndependence ==
  (pc = "rendering" /\ camDist >= 0) =>
    \A b \in Batches :
      /\ mesh[b].visible = FirstFrame(b).visible
      /\ mesh[b].visible => mesh[b].count = FirstFrame(b).count

\* The tree keeps, hidden, the reduced count of an earlier frame far away, and
\* the bush is drawn in full by an update close by
C29_Witness ==
  /\ pc = "rendering"
  /\ camDist >= 0 /\ camDist < BUSH_LOD0_DIST
  /\ fullCount = BuiltCounts
  /\ ~mesh["tree"].visible /\ mesh["tree"].count = Floor10(leavesPerTree, 4)
  /\ ~mesh["flower"].visible
  /\ mesh["bush"].visible /\ mesh["bush"].count = leavesPerBush

\* The place of a step in the order frustum test, distance test, density-tier
\* selection, uniform refresh
StepRank(step) ==
  CASE step = "frustum" -> 1
    [] step = "distance" -> 2
    [] step = "tier" -> 3
    [] step = "uniforms" -> 4

\* C21: in every frame the steps done for a batch come in the order frustum
\* test, distance test, density-tier selection, uniform refresh, and for a
\* batch the frustum test rejects the frustum test is the only step.
C21_StepOrder ==
  (pc = "rendering" /\ camDist >= 0) =>
    \A b \in {"bush", "tree", "flower"} :
      /\ \A i, j \in 1..Len(steps[b]) :
           i < j => StepRank(steps[b][i]) < StepRank(steps[b][j])
      /\ b \notin inFrustum => steps[b] = <<"frustum">>

\* The tests and the tier selection keep their order, after the refresh of the
\* family's uniforms, and a batch the frustum test rejects gets no distance
\* test and no tier
C21_TestsInOrderAfterRefresh ==
  (pc = "rendering" /\ camDist >= 0) =>
    \A b \in {"bush", "tree", "flower"} :
      /\ steps[b][1] = "uniforms"
      /\ \A i, j \in 2..Len(steps[b]) :
           i < j => StepRank(steps[b][i]) < StepRank(steps[b][j])
      /\ b \notin inFrustum => steps[b] = <<"uniforms", "frustum">>
      /\ uniforms[b] = camDist


\* C24: every constructor that installs its own generator as Math.random puts
\* the original back on every way out, so after any sequence of constructions,
\* thrown or not, Math.random is the function it was before the first, while
\* the families built drew from the generator of their own seed.
C24_AmbientRandomRestored ==
  /\ mathRandom = Native
  /\ buildPc \in {"init", "mounted", "aborted"} =>
       \A f \in Families :
         (IsSeeded(f) /\ handles[f] = "live") =>
           arrays[f] = SeededValues(FamilySeed(f), InstanceCount(f))

\* createBushes without a catch clause threw, after createTrees had drawn from
\* its own generator
C24_Witness ==
  /\ buildPc = "aborted"
  /\ faulty = {"bushes"}
  /\ ~bushesGuarded
  /\ handles["trees"] = "live"
  /\ Len(arrays["trees"]) = MaxInstances
  /\ arrays["trees"] = SeededValues(FamilySeed("trees"), MaxInstances)
  /\ mathRandom = Native

\* C27 (no update after teardown): no per-frame update of a family is invoked
\* once the cleanup of that family has run, also when a cleanup throws and
\* updatablesRef is never emptied
C27_NoUpdateAfterTeardown == updatedAfterCleanup = {}

\* A build was torn down by a cleanup that threw, so updatablesRef still
\* holds its envUpdate after some of its families were cleaned up
C27_Witness ==
  /\ buildPc = "unmounted"
  /\ buildNo >= 1
  /\ updatables = buildNo
  /\ \E f \in Families : cleanupRuns[f] > 0 /\ handles[f] # "none"
  /\ firstPass # NoPass
  /\ firstPass.updated # {}

\* C28 (firefly presence tracks the effects setting): once the scene is
\* initialised and every effect has run, there is a live firefly family
\* exactly when the effects setting is on
C28_FireflyPresence ==
  (/\ faulty = {}
   /\ buildPc = "mounted"
   /\ firstPass # NoPass
   /\ ~effectPending)
    => (effects <=> handles["fireflies"] = "live")

\* The same holds for the first initialisation of the scene, whatever the
\* setting is toggled to afterwards
C28_FirstInitialisation ==
  (/\ faulty = {}
   /\ buildNo = 1
   /\ buildPc = "mounted"
   /\ firstPass # NoPass
   /\ ~effectPending)
    => (effects <=> handles["fireflies"] = "live")


\* C30: the positions placed for trees and pines, bushes, flowers and rocks
\* are the same whatever the grass patch count: a computation of the layout
\* for another grass count returns, for every call but the grass call, the
\* list the first computation returned.
C30_GrassCountNonInterference ==
  Len(results) >= 2 =>
    \A c \in 1..Len(results[2]), d \in 1..Len(results[1]) :
      (/\ results[2][c].request = results[1][d].request
       /\ results[2][c].request.targetZone # "GRASS") =>
        /\ results[2][c].positions = results[1][d].positions
        /\ results[2][c].attempts = results[1][d].attempts

\* The layout was computed for 15 grass patches and then for 40
C30_Witness ==
  /\ pc = "idle"
  /\ Len(results) = 2
  /\ Len(results[1]) = 5 /\ Len(results[2]) = 5
  /\ results[1][5].request.count = 15
  /\ results[2][5].request.count = 40
  /\ Len(results[1][5].positions) = 15
  /\ Len(results[2][5].positions) = 40
  /\ Len(results[2][1].positions) = 5

\* ---------------------------------------------------------------------------
\* Zone lookup at any coordinate.  Coordinates are as above: <<hi, lo>> is
\* u = (hi * 65536 + lo) / 2^32, so hi < 0 is left of the world and
\* <<65536, 0>> is its far edge; NaN is a coordinate as well.
\* ---------------------------------------------------------------------------

\* The coordinates looked up: the near corner of every map cell, of one cell
\* before the map and of two after it, the values next to both world edges,
\* and NaN
LookupCoordinates ==
  {<<512 * i, 0>> : i \in -1..(MAP_RES + 1)}
  \cup {<<-1, 65535>>, <<65535, 65535>>, <<65536, 1>>, NaN}

\* |x| > SPREAD / 2
OutOfBounds(x) == x # NaN /\ (x[1] < 0 \/ x[1] > TwoTo16 \/ (x[1] = TwoTo16 /\ x[2] > 0))

\* The zone test of createGrass for a tuft: the colour at the cell is GRASS or
\* FLOWER.  It has no bounds test; an index outside the data reads undefined.
tuftZoneValid(x, z) ==
  IF x = NaN \/ z = NaN THEN FALSE
  ELSE LET mapX == x[1] \div 512
           mapY == z[1] \div 512
           idx  == mapY * MAP_RES + mapX
       IN  /\ idx >= 0
           /\ idx < MAP_RES * MAP_RES
           /\ layoutMap[idx] \in {ZONE_COLORS["GRASS"], ZONE_COLORS["FLOWER"]}

LookupInit ==
  /\ lookX \in LookupCoordinates
  /\ lookZ \in LookupCoordinates
  /\ lookResult = Pending
  /\ gens = <<>>
  /\ outs = <<>>
  /\ seed = FIXED_SEED
  /\ requests = <<>>
  /\ run = 0
  /\ call = 0
  /\ rngA = WordOf(0, 0)
  /\ positions = <<>>
  /\ attempts = 0
  /\ outcome = "none"
  /\ pc = "lookup"
  /\ results = <<>>
  /\ LodIdle
  /\ BuildIdle
  /\ SettingsIdle

\* getLayoutZone(x, z) is called and returns
Lookup ==
  /\ pc = "lookup"
  /\ lookResult = Pending
  /\ lookResult' = [zone |-> getLayoutZone(lookX, lookZ),
                    tuft |-> tuftZoneValid(lookX, lookZ)]
  /\ UNCHANGED <<lookX, lookZ, gens, outs, placeVars, lodVars, buildVars, settingsVars>>

LookupNext == Lookup

SpecLookup == LookupInit /\ [][LookupNext]_vars

\* C16: for every coordinate outside the world bounds the zone lookup returns
\* the sentinel that matches no zone, and for every coordinate whatsoever it
\* returns a zone or the sentinel.
C16_OutOfBoundsSentinel ==
  lookResult # Pending =>
    /\ lookResult.zone \in ZoneNames \cup {"null"}
    /\ (OutOfBounds(lookX) \/ OutOfBounds(lookZ)) => lookResult.zone = "null"
    /\ (lookX = NaN \/ lookZ = NaN) => lookResult.zone = "null"

\* A coordinate just left of the world, in a row of the map, got the sentinel
C16_Witness ==
  /\ lookResult # Pending
  /\ lookX = <<-1, 65535>>
  /\ lookZ = <<32768, 0>>
  /\ lookResult.zone = "null"

\* On the coordinates the generator can produce, the tuft test of createGrass
\* agrees with getLayoutZone
C16_TuftTestAgrees ==
  (/\ lookResult # Pending
   /\ lookX # NaN /\ lookZ # NaN
   /\ lookX[1] \in 0..(TwoTo16 - 1) /\ lookZ[1] \in 0..(TwoTo16 - 1)) =>
    (lookResult.tuft <=> lookResult.zone \in {"GRASS", "FLOWER"})

\* The map cell of a looked-up coordinate inside the map
InMap(x) == x # NaN /\ x[1] \in 0..(TwoTo16 - 1)

\* The EMPTY disks that cover the whole cell (px, py), or touch it
EmptyDisks(px, py, how) ==
  {i \in 1..Len(ZoneDisks) :
     ZoneDisks[i][4] = "EMPTY" /\ Coverage(ZoneDisks[i], px, py) \in how}

\* C17: a map cell covered by an EMPTY disk classifies as EMPTY and as no
\* vegetation zone, the EMPTY disks being painted after everything else.
C17_PaintOrder ==
  (lookResult # Pending /\ InMap(lookX) /\ InMap(lookZ)) =>
    /\ EmptyDisks(lookX[1] \div 512, lookZ[1] \div 512, {"all"}) # {} =>
         /\ lookResult.zone = "EMPTY"
         /\ ~lookResult.tuft
    /\ lookResult.zone = "EMPTY" =>
         EmptyDisks(lookX[1] \div 512, lookZ[1] \div 512, {"all", "part"}) # {}

\* The centre cell of the map, inside the first EMPTY disk, was looked up
C17_Witness ==
  /\ lookResult # Pending
  /\ lookX = <<32768, 0>>
  /\ lookZ = <<32768, 0>>
  /\ lookResult.zone = "EMPTY"

\* ---------------------------------------------------------------------------
\* Several mulberry32 generators called in any order.  Generators 1 and 2 are
\* created from the same seed, generator 3 from any seed.
\* ---------------------------------------------------------------------------
Generators == {1, 2, 3}

\* Calls made on one generator
MaxCalls == 3

\* Seeds generators are created from: FIXED_SEED, and the seeds createBushes
\* and createGrass install
GeneratorSeeds == {WordOf(0, FIXED_SEED), FamilySeed("bushes"), FamilySeed("grass")}

\* mulberry32(a): a closure over its own copy of a
mulberry32(a) == [seed |-> a, a |-> a]

\* A generator whose variable a is shared by every closure
callSharedState(g, all) == [h \in DOMAIN all |-> [all[h] EXCEPT !.a = mulberry32State(@)]]

\* The effect of one call of generator g on the closures: a += 0x6D2B79F5 in
\* the closure of g alone
call32(g, all) == [all EXCEPT ![g].a = mulberry32State(@)]

RngInit ==
  /\ \E s \in GeneratorSeeds, t \in GeneratorSeeds :
       gens = [g \in Generators |-> IF g = 3 THEN mulberry32(t) ELSE mulberry32(s)]
  /\ outs = [g \in Generators |-> <<>>]
  /\ lookX = <<>>
  /\ lookZ = <<>>
  /\ lookResult = Pending
  /\ seed = FIXED_SEED
  /\ requests = <<>>
  /\ run = 0
  /\ call = 0
  /\ rngA = WordOf(0, 0)
  /\ positions = <<>>
  /\ attempts = 0
  /\ outcome = "none"
  /\ pc = "generators"
  /\ results = <<>>
  /\ LodIdle
  /\ BuildIdle
  /\ SettingsIdle

\* One call of a generator
Call ==
  /\ pc = "generators"
  /\ \E g \in Generators :
       /\ Len(outs[g]) < MaxCalls
       /\ outs' = [outs EXCEPT ![g] = Append(@, mulberry32Value(gens[g].a))]
       /\ gens' = call32(g, gens)
  /\ UNCHANGED <<lookX, lookZ, lookResult, placeVars, lodVars, buildVars, settingsVars>>

RngNext == Call

SpecRng == RngInit /\ [][RngNext]_vars

\* C18: what a generator returns depends on its own state only and a call
\* changes no other generator: however the calls are interleaved, each
\* generator has returned the sequence its seed fixes, so two generators of
\* the same seed agree on every call both have made.
C18_RngPurity ==
  pc = "generators" =>
    /\ \A g \in Generators :
         /\ outs[g] = SeededDraws(gens[g].seed, Len(outs[g]))
         /\ gens[g].a = Advance(gens[g].seed, Len(outs[g]))
    /\ \A g, h \in Generators :
         gens[g].seed = gens[h].seed =>
           \A i \in 1..Len(outs[g]) : i <= Len(outs[h]) => outs[g][i] = outs[h][i]

\* Generator 1 was called to the end while generator 2, of the same seed, was
\* called once and generator 3, of another seed, twice
C18_Witness ==
  /\ pc = "generators"
  /\ Len(outs[1]) = MaxCalls
  /\ Len(outs[2]) = 1
  /\ Len(outs[3]) = 2
  /\ gens[3].seed # gens[1].seed
  /\ outs[2][1] = outs[1][1]
  /\ outs[3][1] # outs[1][1]

\* ---------------------------------------------------------------------------
\* The performance settings of the host and what reaches the world: Scene
\* keeps the settings in a ref that envUpdate reads in every frame, ThreeCanvas
\* remounts the world when antiAliasing changes and sets the pixel ratio of
\* the renderer when the resolution changes.
\* ---------------------------------------------------------------------------
Resolutions == {"high", "balanced", "performance", "ultra"}

SettingValues(key) == IF key = "resolution" THEN Resolutions ELSE BOOLEAN

\* World rebuilds followed
MaxRebuilds == 2

\* The settings Welcome starts with
DefaultSettings ==
  [resolution |-> "ultra", shadows |-> FALSE, effects |-> TRUE, antiAliasing |-> FALSE,
   waterReflection |-> FALSE]

\* The pixelRatio memo of Scene, in hundredths; 0 stands for window.devicePixelRatio
pixelRatio(resolution) ==
  CASE resolution = "high" -> 0
    [] resolution = "balanced" -> 100
    [] resolution = "performance" -> 75
    [] resolution = "ultra" -> 50

\* createWater.update: the uniform takes the value handed in by envUpdate
waterUpdate(reflectionEnabled) == reflectionEnabled

\* The scene is mounted with the default settings and its first frame has run
SettingsInit ==
  /\ performanceSettings = DefaultSettings
  /\ perfSettingsRef = DefaultSettings
  /\ waterBuild = 1
  /\ uReflectionEnabled = waterUpdate(DefaultSettings.waterReflection)
  /\ rendererPixelRatio = pixelRatio(DefaultSettings.resolution)
  /\ lookX = <<>>
  /\ lookZ = <<>>
  /\ lookResult = Pending
  /\ gens = <<>>
  /\ outs = <<>>
  /\ seed = FIXED_SEED
  /\ requests = <<>>
  /\ run = 0
  /\ call = 0
  /\ rngA = WordOf(0, 0)
  /\ positions = <<>>
  /\ attempts = 0
  /\ outcome = "none"
  /\ pc = "settings"
  /\ results = <<>>
  /\ LodIdle
  /\ BuildIdle

\* The user changes one setting in the panel; Scene renders with the new prop
ChangeSetting ==
  /\ pc = "settings"
  /\ performanceSettings = perfSettingsRef
  /\ \E key \in DOMAIN performanceSettings :
       \E value \in SettingValues(key) \ {performanceSettings[key]} :
         /\ key = "antiAliasing" => waterBuild < MaxRebuilds
         /\ performanceSettings' = [performanceSettings EXCEPT ![key] = value]
  /\ UNCHANGED <<perfSettingsRef, waterBuild, uReflectionEnabled, rendererPixelRatio,
                 placeVars, lodVars, buildVars, pureVars>>

\* The effects of the render run.  ThreeCanvas first: with a changed
\* antiAliasing it tears the world down, builds it again and runs one frame,
\* which reads the ref as the last render left it; with a changed pixelRatio
\* it sets the ratio on the renderer.  Then Scene stores the settings in the ref.
CommitEffects ==
  /\ pc = "settings"
  /\ performanceSettings # perfSettingsRef
  /\ LET remount == performanceSettings.antiAliasing # perfSettingsRef.antiAliasing
     IN /\ waterBuild' = IF remount THEN waterBuild + 1 ELSE waterBuild
        /\ uReflectionEnabled' = IF remount THEN waterUpdate(perfSettingsRef.waterReflection)
                                 ELSE uReflectionEnabled
  /\ rendererPixelRatio' = pixelRatio(performanceSettings.resolution)
  /\ perfSettingsRef' = performanceSettings
  /\ UNCHANGED <<performanceSettings, placeVars, lodVars, buildVars, pureVars>>

\* One frame: envUpdate hands perfSettingsRef.current.waterReflection to
\* water.update
SettingsFrame ==
  /\ pc = "settings"
  /\ uReflectionEnabled' = waterUpdate(perfSettingsRef.waterReflection)
  /\ UNCHANGED <<performanceSettings, perfSettingsRef, waterBuild, rendererPixelRatio,
                 placeVars, lodVars, buildVars, pureVars>>

SettingsNext == ChangeSetting \/ CommitEffects \/ SettingsFrame

SpecSettings == SettingsInit /\ [][SettingsNext]_vars

C25_RebuildOnlyForAntiAliasing ==
  [][/\ waterBuild' # waterBuild =>
          /\ performanceSettings.antiAliasing # perfSettingsRef.antiAliasing
          /\ perfSettingsRef' = performanceSettings
     /\ rendererPixelRatio' # rendererPixelRatio =>
          /\ performanceSettings.resolution # perfSettingsRef.resolution
          /\ waterBuild' = waterBuild]_vars

=============================================================================
